---- MODULE Spec2Model ----
(***************************************************************************)
(* A model of the fake torrent server (server.py, settings.py): the        *)
(* request handler get_file, the release matcher search_zilean with its    *)
(* title normalizer and similarity scorer, and the torrent synthesizer     *)
(* generate_torrent.                                                       *)
(*                                                                         *)
(* A Python str is a sequence of characters, each an atom ("a", ".", and   *)
(* "u2013" for the en dash).  None is a value distinct from every str.  A   *)
(* float ratio 2.0*M/T is the pair <<2*M, T>>, compared by                 *)
(* cross-multiplication (every denominator is > 0).                        *)
(***************************************************************************)
EXTENDS Integers, Sequences, FiniteSets, TLC

\* ------------------------------------------------------------------ values

\* Python's None: "None" is not a character atom, so no str equals it.
None == <<"None">>

\* Python truthiness of an Optional[str]: None and "" are falsy.
Truthy(v) == v # None /\ v # <<>>

\* n copies of the character c.
Rep(c, n) == [i \in 1..n |-> c]

UpperChars == <<"A","B","C","D","E","F","G","H","I","J","K","L","M",
                "N","O","P","Q","R","S","T","U","V","W","X","Y","Z">>

LowerChars == <<"a","b","c","d","e","f","g","h","i","j","k","l","m",
                "n","o","p","q","r","s","t","u","v","w","x","y","z">>

\* str.lower() on one character.
LowerChar(c) ==
    IF \E i \in 1..Len(UpperChars) : UpperChars[i] = c
    THEN LowerChars[CHOOSE i \in 1..Len(UpperChars) : UpperChars[i] = c]
    ELSE c

\* str.lower().
Lower(s) == [i \in 1..Len(s) |-> LowerChar(s[i])]

\* ------------------------------------------------------- normalize_title

\* The en dash U+2013, written as one character atom.
EnDash == "u2013"

\* The characters of the class [.\-_<en dash>].
SeparatorChars == {".", "-", "_", EnDash}

\* The characters of the class \s that the model's alphabet holds.
WhitespaceChars == {" ", "\t"}

\* re.sub(r'[.\-_<en dash>]', ' ', title)
ReplaceSeparators(s) ==
    [i \in 1..Len(s) |-> IF s[i] \in SeparatorChars THEN " " ELSE s[i]]

\* re.sub(r'\s+', ' ', title): each maximal run of whitespace becomes one space.
RECURSIVE CollapseWhitespace(_)
CollapseWhitespace(s) ==
    IF s = <<>> THEN <<>>
    ELSE IF Head(s) \in WhitespaceChars
         THEN IF Len(s) > 1 /\ s[2] \in WhitespaceChars
              THEN CollapseWhitespace(Tail(s))
              ELSE <<" ">> \o CollapseWhitespace(Tail(s))
         ELSE <<Head(s)>> \o CollapseWhitespace(Tail(s))

\* str.strip(): leading and trailing whitespace removed.
RECURSIVE Strip(_)
Strip(s) ==
    IF s = <<>> THEN <<>>
    ELSE IF Head(s) \in WhitespaceChars THEN Strip(Tail(s))
    ELSE IF s[Len(s)] \in WhitespaceChars THEN Strip(SubSeq(s, 1, Len(s) - 1))
    ELSE s

normalize_title(title) == Strip(CollapseWhitespace(ReplaceSeparators(Lower(title))))

\* ------------------------------------------------------ similarity_ratio

\* Length of the common prefix of a[i+1 .. ahi] and b[j+1 .. bhi] (0-based
\* offsets i, j; half-open ranges as in difflib).
RECURSIVE CommonPrefix(_, _, _, _, _, _)
CommonPrefix(a, b, i, j, ahi, bhi) ==
    IF i < ahi /\ j < bhi /\ a[i + 1] = b[j + 1]
    THEN 1 + CommonPrefix(a, b, i + 1, j + 1, ahi, bhi)
    ELSE 0

\* SequenceMatcher.find_longest_match without junk: the longest block
\* a[i:i+k] == b[j:j+k] inside a[alo:ahi], b[blo:bhi]; of the longest ones the
\* one starting earliest in a, and of those the one starting earliest in b.
find_longest_match(a, b, alo, ahi, blo, bhi) ==
    LET size(i, j) == CommonPrefix(a, b, i, j, ahi, bhi)
        cands == {<<i, j>> \in (alo..(ahi - 1)) \X (blo..(bhi - 1)) : size(i, j) > 0}
    IN  IF cands = {} THEN <<alo, blo, 0>>
        ELSE LET p == CHOOSE p \in cands :
                        \A q \in cands :
                            \/ size(p[1], p[2]) > size(q[1], q[2])
                            \/ /\ size(p[1], p[2]) = size(q[1], q[2])
                               /\ \/ p[1] < q[1]
                                  \/ p[1] = q[1] /\ p[2] <= q[2]
             IN  <<p[1], p[2], size(p[1], p[2])>>

\* The sum of the sizes of SequenceMatcher.get_matching_blocks(): the longest
\* block, then recursively the pieces to its left and to its right.
RECURSIVE MatchingSize(_, _, _, _, _, _)
MatchingSize(a, b, alo, ahi, blo, bhi) ==
    LET m == find_longest_match(a, b, alo, ahi, blo, bhi)
        i == m[1]
        j == m[2]
        k == m[3]
    IN  IF k = 0 THEN 0
        ELSE k
             + (IF alo < i /\ blo < j THEN MatchingSize(a, b, alo, i, blo, j) ELSE 0)
             + (IF i + k < ahi /\ j + k < bhi
                THEN MatchingSize(a, b, i + k, ahi, j + k, bhi) ELSE 0)

\* SequenceMatcher(None, a, b).ratio() = 2.0 * matches / (len(a) + len(b)),
\* and 1.0 when both are empty.
similarity_ratio(a, b) ==
    LET length == Len(a) + Len(b)
    IN  IF length = 0 THEN <<1, 1>>
        ELSE <<2 * MatchingSize(a, b, 0, Len(a), 0, Len(b)), length>>

\* Float comparisons on ratios.
RatioGT(r, s) == r[1] * s[2] > s[1] * r[2]

RatioGE(r, s) == r[1] * s[2] >= s[1] * r[2]

\* ------------------------------------------------------------ settings.py

\* Settings.MATCH_THRESHOLD's default, 0.8.
DefaultThreshold == <<4, 5>>

\* The values MATCH_THRESHOLD is configured to (a float read from the
\* environment): accept anything, and the default.
Thresholds == {<<0, 1>>, DefaultThreshold}

\* ------------------------------------------------------- generate_torrent

\* "magnet:?xt=urn:btih:"
MagnetPrefix == <<"m","a","g","n","e","t",":","?","x","t","=","u","r","n",":","b","t","i","h",":">>

\* "btih:"
BtihTag == <<"b","t","i","h",":">>

\* The class [a-fA-F0-9].
HexChars == {"0","1","2","3","4","5","6","7","8","9",
             "a","b","c","d","e","f","A","B","C","D","E","F"}

\* The repetition count of [a-fA-F0-9]{40}.
HashLen == 40

\* The fallback infohash of search_zilean.
FallbackHash == <<"9","1","4","2","6","f","b","c","1","7","a","d","8","3","6","b","5","a","3","5","2","5","a","e","c","c","b","d","3","3","6","0","0","9","7","a","e","b","2","4">>

\* The fallback return value of search_zilean.
FallbackMagnet == MagnetPrefix \o FallbackHash

\* f"magnet:?xt=urn:btih:{info_hash}"
MagnetOf(info_hash) == MagnetPrefix \o info_hash

\* The 0-based offsets at which r"btih:([a-fA-F0-9]{40})" matches in s.
BtihMatches(s) ==
    {p \in 0..Len(s) :
        /\ p + Len(BtihTag) + HashLen <= Len(s)
        /\ SubSeq(s, p + 1, p + Len(BtihTag)) = BtihTag
        /\ \A k \in 1..HashLen : s[p + Len(BtihTag) + k] \in HexChars}

\* re.search(r"btih:([a-fA-F0-9]{40})", magnet_link): group(1) of the
\* leftmost match, or None.
InfohashMatch(magnet) ==
    IF BtihMatches(magnet) = {} THEN None
    ELSE LET p == CHOOSE p \in BtihMatches(magnet) :
                      \A q \in BtihMatches(magnet) : p <= q
         IN  SubSeq(magnet, p + Len(BtihTag) + 1, p + Len(BtihTag) + HashLen)

piece_length == 262144

fake_file_size == 1073741824

\* hashlib.sha1(...).digest() is 20 bytes long.
DigestSize == 20

\* Mutant: the ceiling taken as floor + 1.
num_pieces_FloorPlusOne == fake_file_size \div piece_length + 1

num_pieces == (fake_file_size + piece_length - 1) \div piece_length

\* str(i) for i >= 0: the decimal digits, most significant first.
DigitChars == <<"0","1","2","3","4","5","6","7","8","9">>

RECURSIVE DecimalStr(_)
DecimalStr(i) ==
    IF i < 10 THEN <<DigitChars[i + 1]>>
    ELSE DecimalStr(i \div 10) \o <<DigitChars[(i % 10) + 1]>>

\* The bytes hashed for piece i: infohash.encode() + str(i).encode().
PieceMessage(infohash, i) == infohash \o DecimalStr(i)

\* ------------------------------------------------------------------ inputs

\* The most results the search service returns in the model.
MaxResults == 2

TORRENT_LC == <<"t","o","r","r","e","n","t">>

TORRENT_MC == <<"T","o","r","r","e","n","t">>

NZB_UC == <<"N","Z","B">>

TXT == <<"t","x","t">>

TORRENTS == <<"t","o","r","r","e","n","t","s">>

FileNames == {<<"A",".","b">>}

\* Extensions: supported ones in several letter cases, and unsupported ones.
FileTypes == {TORRENT_LC, TORRENT_MC, NZB_UC, TXT, TORRENTS, <<>>}

\* str(e) of a requests.RequestException.
ErrorTexts == {"ConnectionError", "503 Server Error"}

\* An absent or null JSON number is <<>>, the number n is <<n>>.
NoNumber == <<>>

\* The parse service's answers.  movie / episode: whether the JSON holds
\* "parsedMovieInfo" / "parsedEpisodeInfo"; seriesTitle is None when the key
\* is absent; title is the top-level "title".
ParsedInfo(movie, episode, movieTitle, year, seriesTitle, seasonNumber, episodeNumbers, resolution, title) ==
    [movie |-> movie, episode |-> episode, movieTitle |-> movieTitle,
     year |-> year, seriesTitle |-> seriesTitle, seasonNumber |-> seasonNumber,
     episodeNumbers |-> episodeNumbers, resolution |-> resolution,
     title |-> title]

Title1 == <<"A",".","b">>

Title2 == <<"a","b">>

ParsedInfos ==
    { ParsedInfo(TRUE, FALSE, <<"a","b">>, <<2020>>, None, NoNumber, <<>>, <<1080>>, Title1),
      ParsedInfo(TRUE, FALSE, <<"a","b">>, <<2020>>, None, NoNumber, <<>>, NoNumber, Title2),
      ParsedInfo(FALSE, TRUE, <<>>, NoNumber, <<"a">>, <<0>>, <<>>, NoNumber, Title1),
      ParsedInfo(FALSE, TRUE, <<>>, NoNumber, <<"a">>, <<1>>, <<2, 3>>, <<720>>, Title2),
      ParsedInfo(FALSE, TRUE, <<>>, NoNumber, None, <<1>>, <<2>>, NoNumber, Title1),
      ParsedInfo(FALSE, TRUE, <<>>, NoNumber, <<>>, <<1>>, <<>>, NoNumber, Title1),
      ParsedInfo(FALSE, TRUE, <<>>, NoNumber, <<"a">>, NoNumber, <<2>>, NoNumber, Title1),
      ParsedInfo(FALSE, FALSE, <<>>, NoNumber, None, NoNumber, <<>>, NoNumber, Title1) }

\* One element of the search service's JSON array; a field is None when the
\* key is absent or null.
Candidate(raw_title, info_hash) == [raw_title |-> raw_title, info_hash |-> info_hash]

\* Candidates: valid, tied, below the default threshold, of ratio 0, with a
\* malformed infohash (too long, too short, not hex), and with a missing
\* raw title or infohash.
Candidates ==
    { Candidate(<<"A","-","B">>, Rep("a", HashLen)),
      Candidate(<<"A","_","b">>, Rep("a", HashLen - 1)),
      Candidate(<<"a","b">>, Rep("F", HashLen)),
      Candidate(<<"a","b">>, Rep("a", HashLen + 1)),
      Candidate(<<"a",".","c">>, Rep("a", HashLen - 1) \o <<"g">>),
      Candidate(<<"c">>, Rep("B", HashLen)),
      Candidate(None, Rep("c", HashLen)),
      Candidate(<<>>, Rep("d", HashLen)),
      Candidate(<<"A","-","B">>, None),
      Candidate(<<"a","b">>, <<>>) }

\* The sequences over S of length at most n.
SeqsUpTo(S, n) == UNION {[1..k -> S] : k \in 0..n}

\* ------------------------------------------------------------------- state

VARIABLES
    pc,                   \* where the request is: "start", "parse", "search",
                          \* "scan", "respond", "gen_validate", "gen_pieces", "done"
    MATCH_THRESHOLD,      \* settings.MATCH_THRESHOLD
    file_name,            \* get_file's path parameters
    file_type,
    parsed_name,          \* file_name.replace(".", " ")
    parsed_info,          \* parse_media_info's return value
    search_url,           \* the parameters of search_zilean's query
    results,              \* response.json() of the search call
    idx,                  \* the position of the for loop in results (1-based)
    file_name_normalized, \* search_zilean's locals
    best_match,
    best_ratio,
    magnet_link,          \* search_zilean's return value
    exception,            \* the exception that ended the request, if any
    response,             \* the HTTP response sent
    parse_calls,          \* requests.get calls made by parse_media_info
    search_calls,         \* requests.get calls made by search_zilean
    synth_calls,          \* calls of generate_torrent and generate_nzb
    responses,            \* HTTP responses sent
    infohash,             \* generate_torrent's locals
    piece_i,              \* the next i of range(num_pieces)
    pieces_len,           \* len of the digests joined so far
    last_msg              \* the bytes hashed for the latest piece

vars == <<pc, MATCH_THRESHOLD, file_name, file_type, parsed_name, parsed_info,
          search_url, results, idx, file_name_normalized, best_match,
          best_ratio, magnet_link, exception, response, parse_calls,
          search_calls, synth_calls, responses, infohash, piece_i, pieces_len,
          last_msg>>

requestVars == <<file_name, file_type, parsed_name>>

scanVars == <<results, idx, file_name_normalized, best_match, best_ratio>>

genVars == <<infohash, piece_i, pieces_len, last_msg>>

\* ---------------------------------------------------------------- responses

NoBody == [kind |-> "none", name |-> <<>>, infohash |-> <<>>,
           piece_length |-> 0, length |-> 0, pieces_len |-> 0]

\* The "info" dictionary of torrent_data, with the length of b"pieces".
TorrentBody(torrent_name, hash, len) ==
    [kind |-> "torrent", name |-> torrent_name, infohash |-> hash,
     piece_length |-> piece_length, length |-> fake_file_size,
     pieces_len |-> len]

\* generate_nzb's document: only file_name varies.
NzbBody(name) ==
    [kind |-> "nzb", name |-> name, infohash |-> <<>>,
     piece_length |-> 0, length |-> 0, pieces_len |-> 0]

Resp(status, detail, body) == [status |-> status, detail |-> detail, body |-> body]

NoResponse == Resp(0, <<>>, NoBody)

NoException == [type |-> "none", origin |-> "none", text |-> ""]

Exception(type, origin, text) == [type |-> type, origin |-> origin, text |-> text]

\* HTTPException(status_code=400, detail="Unsupported file type")
UnsupportedResponse == Resp(400, <<"Unsupported file type">>, NoBody)

\* HTTPException(status_code=404, detail="No matching release found")
NoMatchResponse == Resp(404, <<"No matching release found">>, NoBody)

\* HTTPException(status_code=400, detail="Invalid magnet link format")
InvalidMagnetResponse == Resp(400, <<"Invalid magnet link format">>, NoBody)

\* Mutant: the handler's detail without str(e).
ExternalErrorResponse_NoText(e) ==
    Resp(500, <<"Error communicating with external services">>, NoBody)

\* get_file's handler of requests.RequestException: 500 with str(e).
ExternalErrorResponse(e) ==
    Resp(500, <<"Error communicating with external services: ", e>>, NoBody)

\* An exception get_file does not catch: the framework answers 500.
InternalErrorResponse == Resp(500, <<"Internal Server Error">>, NoBody)

\* ----------------------------------------------------------------- get_file

\* Mutant: the extension compared without lower().
ExtensionSupported_CaseSensitive(ft) == ft \in {TORRENT_LC, Lower(NZB_UC)}

\* file_type.lower() in ["torrent", "nzb"]
ExtensionSupported(ft) == Lower(ft) \in {TORRENT_LC, Lower(NZB_UC)}

\* file_name.replace(".", " ")
ReplaceDots(s) == [i \in 1..Len(s) |-> IF s[i] = "." THEN " " ELSE s[i]]

\* Mutant: synthesis whatever search_zilean returned.
MagnetTruthy_Always(m) == TRUE

\* "if magnet_link:"
MagnetTruthy(m) == Truthy(m)

\* ------------------------------------------------------------ search_zilean

\* get_resolution: the resolution when it is truthy (f"{resolution}p"), else None.
get_resolution(info) ==
    IF (info.movie \/ info.episode) /\ info.resolution # NoNumber
                                    /\ info.resolution # <<0>>
    THEN info.resolution ELSE NoNumber

\* Mutant: "and" for "or".
InvalidTvParse_And(title, season) == ~Truthy(title) /\ season = NoNumber

\* "if not title or season is None"
InvalidTvParse(title, season) == ~Truthy(title) \/ season = NoNumber

NoUrl == [query |-> <<>>, year |-> NoNumber, season |-> NoNumber,
          episode |-> NoNumber, resolution |-> NoNumber]

\* The movie query: title, year, and the resolution when there is one.
MovieUrl(info) ==
    [query |-> info.movieTitle, year |-> info.year, season |-> NoNumber,
     episode |-> NoNumber, resolution |-> get_resolution(info)]

\* parsed_ep.get("seriesTitle", ""): "" when there is no parsedEpisodeInfo
\* or no such key.
SeriesTitle(info) ==
    IF info.episode /\ info.seriesTitle # None THEN info.seriesTitle ELSE <<>>

SeasonNumber(info) == IF info.episode THEN info.seasonNumber ELSE NoNumber

EpisodeNumbers(info) == IF info.episode THEN info.episodeNumbers ELSE <<>>

\* The episode query: title, season, the first episode number when there is
\* one, and the resolution when there is one.
EpisodeUrl(info) ==
    [query |-> SeriesTitle(info), year |-> NoNumber,
     season |-> SeasonNumber(info),
     episode |-> IF EpisodeNumbers(info) # <<>>
                 THEN <<EpisodeNumbers(info)[1]>> ELSE NoNumber,
     resolution |-> get_resolution(info)]

\* "if raw_title and info_hash"
Scorable(result) == Truthy(result.raw_title) /\ Truthy(result.info_hash)

\* Mutant: ">=" for ">", so that a later candidate of equal ratio wins.
NewBest_OrEqual(ratio, best) == RatioGE(ratio, best)

\* "if ratio > best_ratio"
NewBest(ratio, best) == RatioGT(ratio, best)

\* "if best_ratio >= settings.MATCH_THRESHOLD"
Accepted(ratio, threshold) == RatioGE(ratio, threshold)

\* The loop's state: best_match is None or (magnet_link, raw_title).
Best(match, ratio) == [match |-> match, ratio |-> ratio]

\* best_match = None; best_ratio = 0.0
InitialBest == Best(None, <<0, 1>>)

\* One iteration of "for result in results".
ScanOne(result, target, best) ==
    IF Scorable(result)
    THEN LET ratio == similarity_ratio(target, normalize_title(result.raw_title))
         IN  IF NewBest(ratio, best.ratio)
             THEN Best(<<MagnetOf(result.info_hash), result.raw_title>>, ratio)
             ELSE best
    ELSE best

\* The loop over rs[i..].
RECURSIVE ScanAll(_, _, _, _)
ScanAll(rs, target, i, best) ==
    IF i > Len(rs) THEN best
    ELSE ScanAll(rs, target, i + 1, ScanOne(rs[i], target, best))

\* What search_zilean does after the loop: the outcome is "return" with the
\* magnet link, or "raise" when best_match[...] subscripts None.
Outcome(kind, magnet) == [kind |-> kind, magnet |-> magnet]

Decision(best, threshold) ==
    IF Accepted(best.ratio, threshold)
    THEN IF best.match = None
         THEN Outcome("raise", None)
         ELSE Outcome("return", best.match[1])
    ELSE Outcome("return", FallbackMagnet)

\* search_zilean from response.json() on: the outcome for a search response.
MatchOutcome(rs, title, threshold) ==
    IF rs = <<>> THEN Outcome("return", FallbackMagnet)
    ELSE Decision(ScanAll(rs, normalize_title(title), 1, InitialBest), threshold)

\* generate_torrent as one step: 400 when the pattern does not match, else
\* the torrent with its num_pieces digests joined.
generate_torrent(torrent_name, magnet) ==
    IF InfohashMatch(magnet) = None THEN InvalidMagnetResponse
    ELSE Resp(200, <<>>, TorrentBody(torrent_name, InfohashMatch(magnet),
                                     num_pieces * DigestSize))

generate_nzb(name) == Resp(200, <<>>, NzbBody(name))

\* ----------------------------------------------------------------- actions

Init ==
    /\ pc = "start"
    /\ MATCH_THRESHOLD \in Thresholds
    /\ file_name = <<>>
    /\ file_type = <<>>
    /\ parsed_name = <<>>
    /\ parsed_info = ParsedInfo(FALSE, FALSE, <<>>, NoNumber, None, NoNumber,
                                <<>>, NoNumber, <<>>)
    /\ search_url = NoUrl
    /\ results = <<>>
    /\ idx = 0
    /\ file_name_normalized = <<>>
    /\ best_match = None
    /\ best_ratio = <<0, 1>>
    /\ magnet_link = None
    /\ exception = NoException
    /\ response = NoResponse
    /\ parse_calls = 0
    /\ search_calls = 0
    /\ synth_calls = 0
    /\ responses = 0
    /\ infohash = <<>>
    /\ piece_i = 0
    /\ pieces_len = 0
    /\ last_msg = <<>>

\* The request ends with `resp`; exc is the exception that ended it.
Finish(resp, exc) ==
    /\ response' = resp
    /\ exception' = exc
    /\ responses' = responses + 1
    /\ pc' = "done"

\* get_file up to the parse call: the extension check.
Request(fn, ft) ==
    /\ pc = "start"
    /\ file_name' = fn
    /\ file_type' = ft
    /\ IF ~ExtensionSupported(ft)
       THEN /\ Finish(UnsupportedResponse,
                      Exception("HTTPException", "get_file", "Unsupported file type"))
            /\ UNCHANGED parsed_name
       ELSE /\ parsed_name' = ReplaceDots(fn)
            /\ pc' = "parse"
            /\ UNCHANGED <<response, exception, responses>>
    /\ UNCHANGED <<MATCH_THRESHOLD, parsed_info, search_url, scanVars,
                   magnet_link, parse_calls, search_calls, synth_calls, genVars>>

\* parse_media_info's request fails (network error or raise_for_status):
\* get_file's except clause answers 500.
ParseFail(e) ==
    /\ pc = "parse"
    /\ parse_calls' = parse_calls + 1
    /\ Finish(ExternalErrorResponse(e),
              Exception("RequestException", "parse_media_info", e))
    /\ UNCHANGED <<MATCH_THRESHOLD, requestVars, parsed_info, search_url,
                   scanVars, magnet_link, search_calls, synth_calls, genVars>>

\* parse_media_info returns; search_zilean builds its query, or returns None
\* for an invalid TV show parse result.
ParseOk(info) ==
    /\ pc = "parse"
    /\ parse_calls' = parse_calls + 1
    /\ parsed_info' = info
    /\ IF info.movie
       THEN /\ search_url' = MovieUrl(info)
            /\ pc' = "search"
       ELSE IF InvalidTvParse(SeriesTitle(info), SeasonNumber(info))
            THEN /\ search_url' = NoUrl
                 /\ pc' = "respond"
            ELSE /\ search_url' = EpisodeUrl(info)
                 /\ pc' = "search"
    /\ UNCHANGED <<MATCH_THRESHOLD, requestVars, scanVars, magnet_link,
                   exception, response, search_calls, synth_calls, responses,
                   genVars>>

\* search_zilean's request fails: logged, re-raised, answered 500 by get_file.
SearchFail(e) ==
    /\ pc = "search"
    /\ search_calls' = search_calls + 1
    /\ Finish(ExternalErrorResponse(e),
              Exception("RequestException", "search_zilean", e))
    /\ UNCHANGED <<MATCH_THRESHOLD, requestVars, parsed_info, search_url,
                   scanVars, magnet_link, parse_calls, synth_calls, genVars>>

\* search_zilean's request returns rs: the fallback for no results, else the
\* loop starts.
SearchOk(rs) ==
    /\ pc = "search"
    /\ search_calls' = search_calls + 1
    /\ results' = rs
    /\ IF rs = <<>>
       THEN /\ magnet_link' = FallbackMagnet
            /\ pc' = "respond"
            /\ UNCHANGED <<idx, file_name_normalized, best_match, best_ratio>>
       ELSE /\ file_name_normalized' = normalize_title(parsed_info.title)
            /\ best_match' = InitialBest.match
            /\ best_ratio' = InitialBest.ratio
            /\ idx' = 1
            /\ pc' = "scan"
            /\ UNCHANGED magnet_link
    /\ UNCHANGED <<MATCH_THRESHOLD, requestVars, parsed_info, search_url,
                   exception, response, parse_calls, synth_calls, responses,
                   genVars>>

\* One iteration of the loop over results.
ScanStep ==
    /\ pc = "scan"
    /\ idx <= Len(results)
    /\ LET best == ScanOne(results[idx], file_name_normalized,
                           Best(best_match, best_ratio))
       IN  /\ best_match' = best.match
           /\ best_ratio' = best.ratio
    /\ idx' = idx + 1
    /\ UNCHANGED <<pc, MATCH_THRESHOLD, requestVars, parsed_info, search_url,
                   results, file_name_normalized, magnet_link, exception,
                   response, parse_calls, search_calls, synth_calls, responses,
                   genVars>>

\* After the loop: the best match, the fallback, or the TypeError of
\* best_match[1] on None, which no except clause catches.
Decide ==
    /\ pc = "scan"
    /\ idx > Len(results)
    /\ LET d == Decision(Best(best_match, best_ratio), MATCH_THRESHOLD)
       IN  IF d.kind = "raise"
           THEN /\ Finish(InternalErrorResponse,
                          Exception("TypeError", "search_zilean",
                                    "'NoneType' object is not subscriptable"))
                /\ UNCHANGED magnet_link
           ELSE /\ magnet_link' = d.magnet
                /\ pc' = "respond"
                /\ UNCHANGED <<response, exception, responses>>
    /\ UNCHANGED <<MATCH_THRESHOLD, requestVars, parsed_info, search_url,
                   scanVars, parse_calls, search_calls, synth_calls, genVars>>

\* get_file after search_zilean returned: synthesis, or 404 for None.
Respond ==
    /\ pc = "respond"
    /\ IF MagnetTruthy(magnet_link)
       THEN /\ synth_calls' = synth_calls + 1
            /\ IF Lower(file_type) = TORRENT_LC
               THEN LET r == generate_torrent(file_name, magnet_link)
                    IN  Finish(r, IF r.status = 200 THEN NoException
                                  ELSE Exception("HTTPException", "generate_torrent",
                                                 "Invalid magnet link format"))
               ELSE Finish(generate_nzb(file_name), NoException)
       ELSE /\ Finish(NoMatchResponse,
                      Exception("HTTPException", "get_file",
                                "No matching release found"))
            /\ UNCHANGED synth_calls
    /\ UNCHANGED <<MATCH_THRESHOLD, requestVars, parsed_info, search_url,
                   scanVars, magnet_link, parse_calls, search_calls, genVars>>

Next ==
    \/ \E fn \in FileNames, ft \in FileTypes : Request(fn, ft)
    \/ \E e \in ErrorTexts : ParseFail(e)
    \/ \E info \in ParsedInfos : ParseOk(info)
    \/ \E e \in ErrorTexts : SearchFail(e)
    \/ \E rs \in SeqsUpTo(Candidates, MaxResults) : SearchOk(rs)
    \/ ScanStep
    \/ Decide
    \/ Respond

Spec == Init /\ [][Next]_vars

\* ------------------------------------------- generate_torrent, step by step

\* The references handed to generate_torrent: the fallback, a valid
\* infohash in either case, and malformed ones.
GenMagnets ==
    { FallbackMagnet,
      MagnetOf(Rep("a", HashLen - 1) \o <<"F">>),
      MagnetOf(Rep("a", HashLen - 1) \o <<"g">>),
      MagnetOf(Rep("a", HashLen - 1)) }

InitGen ==
    /\ pc = "gen_validate"
    /\ MATCH_THRESHOLD = DefaultThreshold
    /\ file_name \in FileNames
    /\ file_type = TORRENT_LC
    /\ parsed_name = ReplaceDots(file_name)
    /\ parsed_info = ParsedInfo(FALSE, FALSE, <<>>, NoNumber, None, NoNumber,
                                <<>>, NoNumber, <<>>)
    /\ search_url = NoUrl
    /\ results = <<>>
    /\ idx = 0
    /\ file_name_normalized = <<>>
    /\ best_match = None
    /\ best_ratio = <<0, 1>>
    /\ magnet_link \in GenMagnets
    /\ exception = NoException
    /\ response = NoResponse
    /\ parse_calls = 0
    /\ search_calls = 0
    /\ synth_calls = 1
    /\ responses = 0
    /\ infohash = <<>>
    /\ piece_i = 0
    /\ pieces_len = 0
    /\ last_msg = <<>>

genFrame == <<MATCH_THRESHOLD, requestVars, parsed_info, search_url, scanVars,
              magnet_link, parse_calls, search_calls, synth_calls>>

\* The pattern match on the magnet link: 400, or the infohash.
GenValidate ==
    /\ pc = "gen_validate"
    /\ IF InfohashMatch(magnet_link) = None
       THEN /\ Finish(InvalidMagnetResponse,
                      Exception("HTTPException", "generate_torrent",
                                "Invalid magnet link format"))
            /\ UNCHANGED genVars
       ELSE /\ infohash' = InfohashMatch(magnet_link)
            /\ piece_i' = 0
            /\ pieces_len' = 0
            /\ last_msg' = <<>>
            /\ pc' = "gen_pieces"
            /\ UNCHANGED <<response, exception, responses>>
    /\ UNCHANGED genFrame

\* One element of the list comprehension: the digest of piece piece_i is
\* appended.
GenPiece ==
    /\ pc = "gen_pieces"
    /\ piece_i < num_pieces
    /\ last_msg' = PieceMessage(infohash, piece_i)
    /\ pieces_len' = pieces_len + DigestSize
    /\ piece_i' = piece_i + 1
    /\ UNCHANGED <<pc, infohash, response, exception, responses>>
    /\ UNCHANGED genFrame

\* The torrent is encoded and returned.
GenFinish ==
    /\ pc = "gen_pieces"
    /\ piece_i >= num_pieces
    /\ Finish(Resp(200, <<>>, TorrentBody(file_name, infohash, pieces_len)),
              NoException)
    /\ UNCHANGED genVars
    /\ UNCHANGED genFrame

NextGen ==
    \/ GenValidate
    \/ GenPiece
    \/ GenFinish

SpecGen == InitGen /\ [][NextGen]_vars

\* ------------------------------------------------------------------ claims

\* The search call returned a response (it did not fail).
SearchReturned ==
    /\ search_calls = 1
    /\ pc \in {"scan", "respond", "done"}
    /\ exception.type # "RequestException"

\* search_zilean has finished on a search response.
MatcherFinished == SearchReturned /\ pc \in {"respond", "done"}

\* search_zilean returned a magnet link built from a candidate.
MatchReturned ==
    /\ MatcherFinished
    /\ results # <<>>
    /\ magnet_link # None
    /\ magnet_link # FallbackMagnet

\* The candidates of rs that are scored: raw title and infohash both present
\* and non-empty.
ScoredIn(rs) ==
    {i \in 1..Len(rs) : /\ rs[i].raw_title # None /\ rs[i].raw_title # <<>>
                        /\ rs[i].info_hash # None /\ rs[i].info_hash # <<>>}

\* The ratio of candidate i of rs against the request's parsed title.
RatioOf(rs, i) ==
    similarity_ratio(normalize_title(parsed_info.title),
                     normalize_title(rs[i].raw_title))

\* Candidate i attains the greatest ratio over the scored candidates of rs.
AttainsGreatest(rs, i) ==
    /\ i \in ScoredIn(rs)
    /\ \A j \in ScoredIn(rs) : RatioGE(RatioOf(rs, i), RatioOf(rs, j))

\* The content identifier a magnet link carries after "magnet:?xt=urn:btih:".
ContentId(magnet) == SubSeq(magnet, Len(MagnetPrefix) + 1, Len(magnet))

\* Exactly 40 hexadecimal characters, in either case.
IsHex40(s) == Len(s) = 40 /\ \A k \in 1..Len(s) : s[k] \in HexChars

\* C1: on a non-empty search response whose greatest ratio over the scored
\* candidates is >= MATCH_THRESHOLD, search_zilean returns the magnet link of
\* a candidate attaining that greatest ratio; and whatever candidate it
\* returns has a ratio >= MATCH_THRESHOLD that no scored candidate exceeds.
C1_BestAboveThresholdReturned ==
    (MatcherFinished /\ results # <<>>) =>
        /\ (\E i \in 1..Len(results) :
                /\ AttainsGreatest(results, i)
                /\ RatioGE(RatioOf(results, i), MATCH_THRESHOLD))
           => (\E i \in 1..Len(results) :
                /\ AttainsGreatest(results, i)
                /\ magnet_link = MagnetOf(results[i].info_hash))
        /\ MatchReturned
           => (\E i \in 1..Len(results) :
                /\ AttainsGreatest(results, i)
                /\ RatioGE(RatioOf(results, i), MATCH_THRESHOLD)
                /\ magnet_link = MagnetOf(results[i].info_hash))

\* C2: for every search response and threshold, search_zilean returns a
\* candidate's magnet link or the fallback without raising, and the request
\* goes on to synthesis; an empty list and a best ratio below the threshold
\* give the fallback.
C2_NoResultsAndLowScoreSubstituted ==
    MatcherFinished =>
        /\ exception.type # "TypeError"
        /\ \/ magnet_link = FallbackMagnet
           \/ \E i \in 1..Len(results) :
                magnet_link = MagnetOf(results[i].info_hash)
        /\ pc = "done" => synth_calls = 1
        /\ results = <<>> => magnet_link = FallbackMagnet
        /\ (\A i \in ScoredIn(results) :
                ~RatioGE(RatioOf(results, i), MATCH_THRESHOLD))
           => magnet_link = FallbackMagnet

\* The parse result is episodic and lacks a series title or a season number.
InvalidEpisodicParse ==
    /\ parse_calls = 1
    /\ pc \in {"search", "scan", "respond", "done"}
    /\ exception.origin # "parse_media_info"
    /\ ~parsed_info.movie
    /\ \/ ~parsed_info.episode
       \/ parsed_info.seriesTitle \in {None, <<>>}
       \/ parsed_info.seasonNumber = NoNumber

\* What C3 says of an invalid episodic parse, but for the status: no search
\* call, no fallback, no synthesis, and the request on its way to an error.
InvalidParseAborts(status) ==
    InvalidEpisodicParse =>
        /\ search_calls = 0
        /\ synth_calls = 0
        /\ magnet_link = None
        /\ pc \in {"respond", "done"}
        /\ pc = "done" =>
            /\ response.status = status
            /\ response.detail # <<>>
            /\ response.body.kind = "none"

\* C3 as stated: an invalid episodic parse ends in a 500 with a message, with
\* no search call, no fallback and no synthesis.
C3_InvalidParseIs500 == InvalidParseAborts(500)

\* C3 as amended: an invalid episodic parse ends in the 404 "No matching
\* release found", with no search call, no fallback and no synthesis.
C3_InvalidParseIs404 ==
    /\ InvalidParseAborts(404)
    /\ (InvalidEpisodicParse /\ pc = "done") => response = NoMatchResponse

C3_Witness ==
    /\ InvalidEpisodicParse
    /\ pc = "done"
    /\ parsed_info.episode
    /\ parsed_info.seriesTitle = <<"a">>
    /\ parsed_info.seasonNumber = NoNumber

\* C4: generate_torrent produces a torrent only for a content identifier of
\* exactly 40 hexadecimal characters; any other identifier gets the 400
\* "Invalid magnet link format" and no torrent.
C4_OnlyHex40Synthesized ==
    (pc = "done" /\ synth_calls = 1 /\ Lower(file_type) = TORRENT_LC) =>
        /\ response.body.kind = "torrent" => IsHex40(ContentId(magnet_link))
        /\ ~IsHex40(ContentId(magnet_link)) => response = InvalidMagnetResponse

\* The extension equals `word` up to letter case.
SameIgnoringCase(ext, word) ==
    /\ Len(ext) = Len(word)
    /\ \A k \in 1..Len(ext) :
          \/ ext[k] = word[k]
          \/ \E n \in 1..Len(UpperChars) :
                ext[k] = UpperChars[n] /\ word[k] = LowerChars[n]

TorrentOrNzb(ext) ==
    \/ SameIgnoringCase(ext, <<"t","o","r","r","e","n","t">>)
    \/ SameIgnoringCase(ext, <<"n","z","b">>)

\* C5: a request whose extension is neither torrent nor nzb (in any letter
\* case) ends at once in a 400 with no parse call, no search call and no
\* synthesis; a request whose extension is one of them is never answered
\* with that 400.
C5_UnsupportedExtensionRejected ==
    pc # "start" =>
        /\ ~TorrentOrNzb(file_type) =>
              /\ pc = "done"
              /\ response.status = 400
              /\ responses = 1
              /\ parse_calls = 0
              /\ search_calls = 0
              /\ synth_calls = 0
        /\ TorrentOrNzb(file_type) => response # UnsupportedResponse

C5_Witness ==
    /\ pc = "done"
    /\ file_type = <<"t","o","r","r","e","n","t","s">>
    /\ response.status = 400

\* C6: each external service is called at most once per request; a failed
\* parse or search call ends the request in a 500 carrying the error text,
\* with nothing synthesized, and after a failed parse call no search call.
C6_TransportFailureNotRetried ==
    /\ parse_calls <= 1
    /\ search_calls <= 1
    /\ exception.type = "RequestException" =>
          /\ pc = "done"
          /\ responses = 1
          /\ response.status = 500
          /\ Len(response.detail) = 2
          /\ response.detail[2] = exception.text
          /\ response.body.kind = "none"
          /\ synth_calls = 0
          /\ exception.origin = "parse_media_info" => search_calls = 0
    /\ (pc = "done" /\ response.status = 200) => exception.type = "none"

C6_Witness ==
    /\ pc = "done"
    /\ exception.type = "RequestException"
    /\ exception.origin = "search_zilean"
    /\ exception.text = "503 Server Error"
    /\ parse_calls = 1
    /\ search_calls = 1

\* The earliest candidate among the first n of results that attains the
\* greatest ratio over the scored ones among them, when that ratio is > 0.
EarliestBest(n, i) ==
    LET rs == SubSeq(results, 1, n)
    IN  /\ AttainsGreatest(rs, i)
        /\ \A j \in 1..(i - 1) : ~AttainsGreatest(rs, j)

RECURSIVE DecimalValue(_)
DecimalValue(s) ==
    IF s = <<>> \/ \E k \in 1..Len(s) : s[k] \notin {DigitChars[d] : d \in 1..10}
    THEN -1
    ELSE LET last == CHOOSE d \in 0..9 : DigitChars[d + 1] = s[Len(s)]
         IN  IF Len(s) = 1 THEN last
             ELSE 10 * DecimalValue(SubSeq(s, 1, Len(s) - 1)) + last

\* C8: for a valid 40-hex content identifier the pieces are the digests of
\* (identifier, decimal i) for i = 0 .. 4095 in order, 20 bytes each: 81920
\* bytes in all.
C8_PiecesLength ==
    /\ pc = "gen_pieces" =>
          /\ IsHex40(infohash)
          /\ piece_i <= 4096
          /\ pieces_len = 20 * piece_i
          /\ piece_i > 0 =>
                /\ SubSeq(last_msg, 1, 40) = infohash
                /\ DecimalValue(SubSeq(last_msg, 41, Len(last_msg))) = piece_i - 1
                /\ (last_msg[41] = "0" => Len(last_msg) = 41)
    /\ (pc = "done" /\ response.status = 200) =>
          /\ piece_i = 4096
          /\ 4096 * 262144 >= 1073741824
          /\ 4095 * 262144 < 1073741824
          /\ response.body.pieces_len = 81920
          /\ response.body.infohash = infohash
          /\ DecimalValue(SubSeq(last_msg, 41, Len(last_msg))) = 4095

C8_Witness ==
    /\ pc = "done"
    /\ response.status = 200
    /\ response.body.kind = "torrent"
    /\ response.body.pieces_len = 81920
    /\ infohash = Rep("a", 39) \o <<"F">>

\* The list without the candidates that lack a raw title or an infohash.
RECURSIVE WithoutSkipped(_)
WithoutSkipped(rs) ==
    IF rs = <<>> THEN <<>>
    ELSE IF 1 \in ScoredIn(rs)
         THEN <<Head(rs)>> \o WithoutSkipped(Tail(rs))
         ELSE WithoutSkipped(Tail(rs))

\* C9: a candidate lacking a raw title or an infohash is never returned, and
\* search_zilean ends as it does on the list without such candidates: the
\* same candidate selected, or the fallback used, in both.
C9_SkippedCandidatesIgnored ==
    MatcherFinished =>
        /\ MatchReturned =>
              \E i \in ScoredIn(results) :
                  magnet_link = MagnetOf(results[i].info_hash)
        /\ LET clean == MatchOutcome(WithoutSkipped(results), parsed_info.title,
                                     MATCH_THRESHOLD)
           IN  /\ clean.kind = "return" => magnet_link = clean.magnet
               /\ clean.kind = "raise" => exception.type = "TypeError"

\* C10: one sequential flow per request: the search call only after a
\* successful parse call, synthesis only after the matcher returned a magnet
\* link, each stage at most once, and exactly one response when the request
\* has ended (none before).
C10_SequentialFlow ==
    /\ parse_calls <= 1 /\ search_calls <= 1 /\ synth_calls <= 1
    /\ search_calls = 1 =>
          /\ parse_calls = 1
          /\ exception.origin # "parse_media_info"
          /\ parsed_info \in ParsedInfos
    /\ synth_calls = 1 =>
          /\ parse_calls = 1
          /\ SearchReturned
          /\ magnet_link # None
          /\ pc = "done"
    /\ pc = "scan" => search_calls = 1
    /\ responses = (IF pc = "done" THEN 1 ELSE 0)
    /\ pc = "done" =>
          /\ response # NoResponse
          /\ response.status = 200 <=> response.body.kind \in {"torrent", "nzb"}
          /\ response.status = 200 => synth_calls = 1
    /\ pc # "done" => response = NoResponse

C10_Witness ==
    /\ pc = "done"
    /\ response.status = 200
    /\ response.body.kind = "torrent"
    /\ parse_calls = 1
    /\ search_calls = 1
    /\ synth_calls = 1
    /\ Len(results) = 2

====
